---- MODULE Spec2Model ----
(***************************************************************************)
(* A model of the text-to-SQL pipeline of bq-genai-poc:                    *)
(*   src/src/llm_logic.py  GenAIChain (lazy handles, generate_sql,         *)
(*                         _clean_sql_response, execute_sql,               *)
(*                         generate_answer, ask)                           *)
(*   src/src/bq_client.py  BigQueryClient (credentials, test_connection,   *)
(*                         get_connection_uri)                             *)
(*   src/app.py            the Streamlit session: Connect, Show Tables,    *)
(*                         Clear Chat and the chat input                   *)
(*                                                                         *)
(* Text is modelled character by character: a Python str is a sequence of  *)
(* one-character strings.                                                  *)
(***************************************************************************)
EXTENDS Integers, Sequences, FiniteSets, TLC

\* ------------------------------------------------------------------------
\* Bounds of the model
\* ------------------------------------------------------------------------

\* the longest text drawn for the sanitizer, counted in chunks
MaxChunks == 2
\* Connect attempts that get as far as constructing a BigQueryClient
MaxConnects == 2
\* questions asked before the chat is cleared
MaxAsks == 1

\* ------------------------------------------------------------------------
\* Python str helpers
\* ------------------------------------------------------------------------

\* characters str.strip() removes (the model's alphabet holds two of them)
IsSpace(c) == c \in {" ", "\n"}

RECURSIVE LStrip(_)
\* str.lstrip()
LStrip(s) ==
    IF s # <<>> /\ IsSpace(Head(s)) THEN LStrip(Tail(s)) ELSE s

RECURSIVE RStrip(_)
\* str.rstrip()
RStrip(s) ==
    IF s # <<>> /\ IsSpace(s[Len(s)]) THEN RStrip(SubSeq(s, 1, Len(s) - 1)) ELSE s

\* str.strip()
Strip(s) == RStrip(LStrip(s))

\* s.startswith(p)
StartsWith(s, p) == Len(s) >= Len(p) /\ SubSeq(s, 1, Len(p)) = p

\* s.endswith(p)
EndsWith(s, p) == Len(s) >= Len(p) /\ SubSeq(s, Len(s) - Len(p) + 1, Len(s)) = p

\* s[n:]
SliceFrom(s, n) == SubSeq(s, n + 1, Len(s))

\* s[:-n]  (n > 0)
SliceUntilLast(s, n) == SubSeq(s, 1, Len(s) - n)

\* one character of str.lower()
LowerChar(c) ==
    CASE c = "S" -> "s"
      [] c = "Q" -> "q"
      [] c = "L" -> "l"
      [] c = "U" -> "u"
      [] c = "E" -> "e"
      [] c = "R" -> "r"
      [] c = "Y" -> "y"
      [] OTHER -> c

\* s.lower()
Lower(s) == [i \in 1..Len(s) |-> LowerChar(s[i])]

\* ------------------------------------------------------------------------
\* GenAIChain._clean_sql_response
\* ------------------------------------------------------------------------

\* the backtick character (the parser refuses it inside a string literal)
BT == "BACKTICK"

\* the opening fence of a sql block: three backticks and sql
FenceSql == <<BT, BT, BT, "s", "q", "l">>
\* a bare fence: three backticks
Fence == <<BT, BT, BT>>
\* "sqlquery:"
LabelLower == <<"s", "q", "l", "q", "u", "e", "r", "y", ":">>

\* the slice offsets the code writes as literals
FenceSqlCut == 6
FenceCut == 3
FenceEndCut == 3
LabelCut == 9

\* a sanitizer that strips the markup but forgets the final strip() calls
CleanNoRestrip(response) ==
    LET s0 == Strip(response)
        s1 == IF StartsWith(s0, FenceSql) THEN SliceFrom(s0, FenceSqlCut)
              ELSE IF StartsWith(s0, Fence) THEN SliceFrom(s0, FenceCut)
              ELSE s0
        s2 == IF EndsWith(s1, Fence) THEN SliceUntilLast(s1, FenceEndCut) ELSE s1
    IN  IF StartsWith(Lower(s2), LabelLower) THEN SliceFrom(s2, LabelCut) ELSE s2

\* a sanitizer whose label test is case-sensitive (no .lower())
CleanCaseSensitive(response) ==
    LET s0 == Strip(response)
        s1 == IF StartsWith(s0, FenceSql) THEN SliceFrom(s0, FenceSqlCut)
              ELSE IF StartsWith(s0, Fence) THEN SliceFrom(s0, FenceCut)
              ELSE s0
        s2 == IF EndsWith(s1, Fence) THEN SliceUntilLast(s1, FenceEndCut) ELSE s1
        s3 == Strip(s2)
    IN  IF StartsWith(s3, LabelLower) THEN Strip(SliceFrom(s3, LabelCut)) ELSE s3

\* a sanitizer that cuts the last three characters without testing for a fence
CleanAlwaysCutEnd(response) ==
    LET s0 == Strip(response)
        s1 == IF StartsWith(s0, FenceSql) THEN SliceFrom(s0, FenceSqlCut)
              ELSE IF StartsWith(s0, Fence) THEN SliceFrom(s0, FenceCut)
              ELSE s0
        s2 == IF Len(s1) >= FenceEndCut THEN SliceUntilLast(s1, FenceEndCut) ELSE s1
        s3 == Strip(s2)
    IN  IF StartsWith(Lower(s3), LabelLower) THEN Strip(SliceFrom(s3, LabelCut)) ELSE s3

\* GenAIChain._clean_sql_response(response)
CleanSqlResponse(response) ==
    LET s0 == Strip(response)
        s1 == IF StartsWith(s0, FenceSql) THEN SliceFrom(s0, FenceSqlCut)
              ELSE IF StartsWith(s0, Fence) THEN SliceFrom(s0, FenceCut)
              ELSE s0
        s2 == IF EndsWith(s1, Fence) THEN SliceUntilLast(s1, FenceEndCut) ELSE s1
        s3 == Strip(s2)
    IN  IF StartsWith(Lower(s3), LabelLower) THEN Strip(SliceFrom(s3, LabelCut)) ELSE s3

\* ------------------------------------------------------------------------
\* Values
\* ------------------------------------------------------------------------

\* Python None; every optional slot holds None or a non-empty tuple
None == <<>>
\* no exception raised
NoErr == "no_error"
\* an external call that raises instead of returning a string
Fail == "raises"
\* sql_chain.invoke raising instead of returning text
RawFail == <<"raises">>

\* the SQL a model reply carries in the pipeline model
SqlX == <<"x">>
SqlY == <<"y">>

\* model replies: already clean, fenced sql block, labelled
RawResponses ==
    { SqlX,
      FenceSql \o <<"\n">> \o SqlX \o <<"\n">> \o Fence,
      <<"S", "Q", "L", "Q", "u", "e", "r", "y", ":", " ">> \o SqlY }

Questions == {"q1", "q2"}
\* what db.run returns
Rows == "rows"
\* what the answer chain returns
AnswerText == "answer"

\* the outcomes of the external calls one handler run makes:
\*   from_uri  SQLDatabase.from_uri(...) returns
\*   raw       sql_chain.invoke(...) returns this text, or raises
\*   run       db.run(...) returns this, or raises
\*   answer    answer_chain.invoke(...) returns this, or raises
\* ask runs no query when generation raised and asks for no answer when the
\* run raised, so the outcome of a call behind a raising one is not enumerated:
\* it is fixed to raising.
Envs ==
    { e \in [ from_uri : BOOLEAN,
              raw : RawResponses \cup {RawFail},
              run : {Rows, Fail},
              answer : {AnswerText, Fail} ] :
      /\ (e.raw = RawFail => e.run = Fail)
      /\ (e.run = Fail => e.answer = Fail) }

\* the outcomes that matter to a call that only reaches the data source
CatalogEnvs == {e \in Envs : e.raw = RawFail}

\* ------------------------------------------------------------------------
\* GenAIChain
\* ------------------------------------------------------------------------

\* the result of a method: the object afterwards, the external calls made so
\* far, the exception raised (NoErr when it returned) and the value returned
Ret(self, calls, err, val) == [self |-> self, calls |-> calls, err |-> err, val |-> val]

\* a statement that may raise, then the rest of the body: an exception ends
\* the method there and goes to its caller
Try(r, Rest(_)) == IF r.err # NoErr THEN r ELSE Rest(r)

\* a statement whose exception is caught, then the rest of the body
Then(r, Rest(_)) == Rest(r)

\* GenAIChain.__init__
NewGenAIChain(id, connection_uri, google_api_key) ==
    [ id |-> id, connection_uri |-> connection_uri, google_api_key |-> google_api_key,
      _db |-> None, _llm |-> None, _sql_chain |-> None ]

\* a db property that builds a new handle on every access
DbRebuild(self, calls, e, fresh) ==
    IF e.from_uri
    THEN Ret([self EXCEPT !._db = fresh],
             Append(calls, <<"SQLDatabase.from_uri", self.connection_uri>>), NoErr, fresh)
    ELSE Ret(self, Append(calls, <<"SQLDatabase.from_uri", self.connection_uri>>),
             "ConnectError", None)

\* GenAIChain.db: fresh is the identity of the handle from_uri would return
Db(self, calls, e, fresh) ==
    IF self._db = None
    THEN IF e.from_uri
         THEN Ret([self EXCEPT !._db = fresh],
                  Append(calls, <<"SQLDatabase.from_uri", self.connection_uri>>), NoErr, fresh)
         ELSE Ret(self, Append(calls, <<"SQLDatabase.from_uri", self.connection_uri>>),
                  "ConnectError", None)
    ELSE Ret(self, calls, NoErr, self._db)

\* GenAIChain.llm: constructing the client makes no call of its own
Llm(self, calls) ==
    IF self._llm = None
    THEN IF ~self.google_api_key
         THEN Ret(self, calls, "ValueError", None)
         ELSE Ret([self EXCEPT !._llm = <<"llm">>], calls, NoErr, <<"llm">>)
    ELSE Ret(self, calls, NoErr, self._llm)

\* GenAIChain.sql_chain: the arguments are evaluated left to right, llm first
SqlChain(self, calls, e, fresh) ==
    IF self._sql_chain = None
    THEN Try(Llm(self, calls), LAMBDA l :
         Try(Db(l.self, l.calls, e, fresh), LAMBDA d :
         Ret([d.self EXCEPT !._sql_chain = <<"chain", l.val, d.val>>], d.calls, NoErr,
             <<"chain", l.val, d.val>>)))
    ELSE Ret(self, calls, NoErr, self._sql_chain)

\* GenAIChain.get_table_info
GetTableInfoOf(self, calls, e, fresh) ==
    Try(Db(self, calls, e, fresh), LAMBDA d :
    Ret(d.self, Append(d.calls, <<"db.get_table_info", d.val>>), NoErr, <<"table_info">>))

\* GenAIChain.get_table_names
GetTableNamesOf(self, calls, e, fresh) ==
    Try(Db(self, calls, e, fresh), LAMBDA d :
    Ret(d.self, Append(d.calls, <<"db.get_usable_table_names", d.val>>), NoErr,
        <<"table_names">>))

\* a generate_sql that returns the model's reply as it came
GenerateSqlRaw(self, calls, e, fresh, question) ==
    Try(SqlChain(self, calls, e, fresh), LAMBDA c :
    IF e.raw = RawFail
    THEN Ret(c.self, Append(c.calls, <<"sql_chain.invoke", question>>), "GenerationError", None)
    ELSE Ret(c.self, Append(c.calls, <<"sql_chain.invoke", question>>), NoErr, e.raw))

\* GenAIChain.generate_sql
GenerateSql(self, calls, e, fresh, question) ==
    Try(SqlChain(self, calls, e, fresh), LAMBDA c :
    IF e.raw = RawFail
    THEN Ret(c.self, Append(c.calls, <<"sql_chain.invoke", question>>), "GenerationError", None)
    ELSE Ret(c.self, Append(c.calls, <<"sql_chain.invoke", question>>), NoErr,
             CleanSqlResponse(e.raw)))

\* GenAIChain.execute_sql
ExecuteSql(self, calls, e, fresh, sql_query) ==
    Try(Db(self, calls, e, fresh), LAMBDA d :
    IF e.run = Fail
    THEN Ret(d.self, Append(d.calls, <<"db.run", sql_query>>), "ExecutionError", None)
    ELSE Ret(d.self, Append(d.calls, <<"db.run", sql_query>>), NoErr, e.run))

\* the arguments of answer_chain.invoke
AnswerInputs(question, sql_query, sql_result) ==
    [question |-> question, sql_query |-> sql_query, sql_result |-> sql_result]

\* GenAIChain.generate_answer
GenerateAnswer(self, calls, e, question, sql_query, sql_result) ==
    Try(Llm(self, calls), LAMBDA l :
    IF e.answer = Fail
    THEN Ret(l.self,
             Append(l.calls, <<"answer_chain.invoke", AnswerInputs(question, sql_query, sql_result)>>),
             "SynthesisError", None)
    ELSE Ret(l.self,
             Append(l.calls, <<"answer_chain.invoke", AnswerInputs(question, sql_query, sql_result)>>),
             NoErr, e.answer))

\* the record ask returns
ExchangeRecord(question, sql_query, sql_result, answer) ==
    [ question |-> question, sql_query |-> sql_query,
      sql_result |-> sql_result, answer |-> answer ]

\* what the executor returned, or the text of its error when it raised
ResultOrError(x) == IF x.err # NoErr THEN x.err ELSE x.val

\* an ask that catches the executor's error and lets the model explain it
AskSwallowExec(self, e, fresh, question) ==
    Try(GenerateSql(self, <<>>, e, fresh, question), LAMBDA g :
    Then(ExecuteSql(g.self, g.calls, e, fresh, g.val), LAMBDA x :
    Try(GenerateAnswer(x.self, x.calls, e, question, g.val, ResultOrError(x)), LAMBDA a :
    Ret(a.self, a.calls, NoErr,
        ExchangeRecord(question, g.val, ResultOrError(x), a.val)))))

\* an ask that returns what it has when the answer cannot be generated
AskPartial(self, e, fresh, question) ==
    Try(GenerateSql(self, <<>>, e, fresh, question), LAMBDA g :
    Try(ExecuteSql(g.self, g.calls, e, fresh, g.val), LAMBDA x :
    Then(GenerateAnswer(x.self, x.calls, e, question, g.val, x.val), LAMBDA a :
    Ret(a.self, a.calls, NoErr,
        ExchangeRecord(question, g.val, x.val, IF a.err # NoErr THEN "" ELSE a.val)))))

\* GenAIChain.ask
Ask(self, e, fresh, question) ==
    Try(GenerateSql(self, <<>>, e, fresh, question), LAMBDA g :
    Try(ExecuteSql(g.self, g.calls, e, fresh, g.val), LAMBDA x :
    Try(GenerateAnswer(x.self, x.calls, e, question, g.val, x.val), LAMBDA a :
    Ret(a.self, a.calls, NoErr, ExchangeRecord(question, g.val, x.val, a.val)))))

\* ------------------------------------------------------------------------
\* BigQueryClient
\* ------------------------------------------------------------------------

\* os.path.exists(credentials_path)
Exists(path) == path = "sa.json"

\* BigQueryClient.__init__ (the app always passes a non-empty credentials_path)
NewBigQueryClient(id, project_id, credentials_path) ==
    [ id |-> id, project_id |-> project_id, credentials_path |-> credentials_path ]

\* BigQueryClient.test_connection, through client and credentials: the
\* exception it raises, NoErr when it returns True
TestConnection(bq, test_ok) ==
    IF bq.credentials_path = "" THEN "ValueError"
    ELSE IF ~Exists(bq.credentials_path) THEN "FileNotFoundError"
    ELSE IF test_ok THEN NoErr
    ELSE "ConnectionFailed"

\* BigQueryClient.get_connection_uri
GetConnectionUri(bq, dataset_id) == <<bq.project_id, dataset_id, bq.credentials_path>>

\* ------------------------------------------------------------------------
\* The Streamlit session (src/app.py)
\* ------------------------------------------------------------------------

VARIABLES
    session,      \* st.session_state: bq_client, genai_chain, connected, project_id, dataset_id
    messages,     \* st.session_state.messages
    attempts,     \* BigQueryClient objects constructed so far (object identities)
    lastSuccess,  \* the attempt whose Connect last succeeded, 0 when none has
    handles,      \* SQLDatabase handles from_uri has returned so far
    db_writes,    \* assignments to _db of the session's GenAIChain object
    last,         \* the trace of the last handler run
    response,     \* sanitizer harness: the text handed to _clean_sql_response
    wrap,         \* sanitizer harness: how response was built around payload
    payload,      \* sanitizer harness: the text inside the markup
    sql,          \* sanitizer harness: _clean_sql_response(response)
    sql_again,    \* sanitizer harness: _clean_sql_response(sql)
    passes        \* sanitizer harness: sanitizer passes made, 0..2

appVars == <<session, messages, attempts, lastSuccess, handles, db_writes, last>>
cleanVars == <<response, wrap, payload, sql, sql_again, passes>>
vars == <<session, messages, attempts, lastSuccess, handles, db_writes, last,
          response, wrap, payload, sql, sql_again, passes>>

\* a session_state key that was never assigned
Unset == "unset"

\* the trace of a handler run that made no pipeline call
Trace(op, connected, err) ==
    [ op |-> op, connected |-> connected, pre_db |-> None, question |-> "",
      raw |-> RawFail, run |-> Fail, answer |-> Fail,
      calls |-> <<>>, err |-> err, record |-> <<>> ]

\* init_session_state, on the first run of the script
InitSession ==
    [ bq_client |-> None, genai_chain |-> None, connected |-> FALSE,
      project_id |-> Unset, dataset_id |-> Unset ]

\* the text inputs of the sidebar
ProjectIds == {"", "p1", "p2"}
DatasetIds == {"", "d1"}
CredsPaths == {"", "missing.json", "sa.json"}
ApiKeys == {"", "key"}

\* a Connect handler that stores the client before it has tested the connection
ConnectStoreEarly(s, id, project_id, dataset_id, creds_path, api_key, test_ok) ==
    IF project_id = "" \/ dataset_id = "" \/ creds_path = "" \/ api_key = ""
    THEN [session |-> s, err |-> "missing_field"]
    ELSE LET bq_client == NewBigQueryClient(id, project_id, creds_path)
             early == [s EXCEPT !.bq_client = <<bq_client>>]
             tested == TestConnection(bq_client, test_ok) IN
         IF tested # NoErr
         THEN [session |-> early, err |-> tested]
         ELSE LET connection_uri == GetConnectionUri(bq_client, dataset_id)
                  genai_chain == NewGenAIChain(id, connection_uri, api_key # "") IN
              [ session |-> [ bq_client |-> <<bq_client>>, genai_chain |-> <<genai_chain>>,
                              connected |-> TRUE,
                              project_id |-> project_id, dataset_id |-> dataset_id ],
                err |-> NoErr ]

\* render_sidebar when the Connect button was pressed: the session afterwards
\* and the error shown (NoErr on "Connected successfully!")
ConnectHandler(s, id, project_id, dataset_id, creds_path, api_key, test_ok) ==
    IF project_id = "" \/ dataset_id = "" \/ creds_path = "" \/ api_key = ""
    THEN [session |-> s, err |-> "missing_field"]
    ELSE LET bq_client == NewBigQueryClient(id, project_id, creds_path)
             tested == TestConnection(bq_client, test_ok) IN
         IF tested # NoErr
         THEN [session |-> s, err |-> tested]
         ELSE LET connection_uri == GetConnectionUri(bq_client, dataset_id)
                  genai_chain == NewGenAIChain(id, connection_uri, api_key # "") IN
              [ session |-> [ bq_client |-> <<bq_client>>, genai_chain |-> <<genai_chain>>,
                              connected |-> TRUE,
                              project_id |-> project_id, dataset_id |-> dataset_id ],
                err |-> NoErr ]

\* the SQLDatabase.from_uri calls of a handler run that returned a handle
Builds(calls, e) ==
    IF e.from_uri
    THEN Cardinality({i \in 1..Len(calls) : calls[i][1] = "SQLDatabase.from_uri"})
    ELSE 0

\* the _db of the session's pipeline object, None when there is no object
SessionDb(s) == IF s.genai_chain = None THEN None ELSE s.genai_chain[1]._db

\* the Connect button
Connect ==
    /\ attempts < MaxConnects
    /\ \E project_id \in ProjectIds, dataset_id \in DatasetIds,
          creds_path \in CredsPaths, api_key \in ApiKeys, test_ok \in BOOLEAN :
          LET r == ConnectHandler(session, attempts + 1, project_id, dataset_id,
                                  creds_path, api_key, test_ok) IN
          /\ session' = r.session
          /\ attempts' = IF r.err = "missing_field" THEN attempts ELSE attempts + 1
          /\ lastSuccess' = IF r.err = NoErr THEN attempts + 1 ELSE lastSuccess
          /\ db_writes' = IF r.err = NoErr THEN 0 ELSE db_writes
          /\ last' = Trace("connect", session.connected, r.err)
    /\ UNCHANGED <<messages, handles, cleanVars>>

\* a call of a pipeline method that only reads the catalog: op names it
CatalogCall(op, r, e) ==
    /\ session' = [session EXCEPT !.genai_chain = <<r.self>>]
    /\ handles' = handles + Builds(r.calls, e)
    /\ db_writes' = db_writes + Builds(r.calls, e)
    /\ last' = [ Trace(op, session.connected, r.err) EXCEPT
                 !.pre_db = SessionDb(session), !.calls = r.calls ]
    /\ UNCHANGED <<messages, attempts, lastSuccess, cleanVars>>

\* the Show Tables button (shown only when connected)
ShowTables ==
    /\ session.connected
    /\ \E e \in CatalogEnvs :
          CatalogCall("show_tables",
                      GetTableNamesOf(session.genai_chain[1], <<>>, e, <<"db", handles + 1>>), e)

\* get_table_info called on the session's pipeline object
GetTableInfo ==
    /\ session.genai_chain # None
    /\ \E e \in CatalogEnvs :
          CatalogCall("get_table_info",
                      GetTableInfoOf(session.genai_chain[1], <<>>, e, <<"db", handles + 1>>), e)

\* the Clear Chat button (shown only when connected)
ClearChat ==
    /\ session.connected
    /\ messages' = <<>>
    /\ last' = Trace("clear_chat", session.connected, NoErr)
    /\ UNCHANGED <<session, attempts, lastSuccess, handles, db_writes, cleanVars>>

\* the messages a submitted prompt appends, given what ask did
ChatMessages(prompt, r) ==
    IF r.err = NoErr
    THEN << [role |-> "user", content |-> prompt],
            [role |-> "assistant", content |-> r.val.answer,
             sql_query |-> r.val.sql_query, sql_result |-> r.val.sql_result] >>
    ELSE << [role |-> "user", content |-> prompt],
            [role |-> "assistant", content |-> <<"Error executing query", r.err>>] >>

\* st.session_state.genai_chain.ask(prompt): on None the attribute lookup raises
SessionAsk(s, e, fresh, prompt) ==
    IF s.genai_chain = None
    THEN Ret(None, <<>>, "AttributeError", None)
    ELSE Ask(s.genai_chain[1], e, fresh, prompt)

\* a chat page that takes the prompt without looking at connected
RenderChatUnguarded(s, msgs, e, fresh, prompt) ==
    LET r == SessionAsk(s, e, fresh, prompt) IN
    [ session |-> IF s.genai_chain = None THEN s
                  ELSE [s EXCEPT !.genai_chain = <<r.self>>],
      messages |-> msgs \o ChatMessages(prompt, r),
      asked |-> TRUE, r |-> r ]

\* render_chat_interface with a prompt waiting: the session and the messages
\* afterwards, whether ask was called, and what it did
RenderChat(s, msgs, e, fresh, prompt) ==
    IF ~s.connected
    THEN [ session |-> s, messages |-> msgs, asked |-> FALSE,
           r |-> Ret(None, <<>>, NoErr, None) ]
    ELSE LET r == SessionAsk(s, e, fresh, prompt) IN
         [ session |-> IF s.genai_chain = None THEN s
                       ELSE [s EXCEPT !.genai_chain = <<r.self>>],
           messages |-> msgs \o ChatMessages(prompt, r),
           asked |-> TRUE, r |-> r ]

\* the chat page, with a question typed
Chat ==
    /\ Len(messages) + 2 <= 2 * MaxAsks
    /\ \E prompt \in Questions, e \in Envs :
          LET out == RenderChat(session, messages, e, <<"db", handles + 1>>, prompt) IN
          /\ session' = out.session
          /\ messages' = out.messages
          /\ handles' = handles + Builds(out.r.calls, e)
          /\ db_writes' = db_writes + Builds(out.r.calls, e)
          /\ last' = IF out.asked
                     THEN [ op |-> "ask", connected |-> session.connected,
                            pre_db |-> SessionDb(session), question |-> prompt,
                            raw |-> e.raw, run |-> e.run, answer |-> e.answer,
                            calls |-> out.r.calls, err |-> out.r.err,
                            record |-> IF out.r.err = NoErr THEN <<out.r.val>> ELSE <<>> ]
                     ELSE Trace("chat_not_connected", session.connected, NoErr)
    /\ UNCHANGED <<attempts, lastSuccess, cleanVars>>

\* ------------------------------------------------------------------------
\* The sanitizer on its own
\* ------------------------------------------------------------------------

\* "SQLQuery:" as the prompt of create_sql_query_chain writes it, and in capitals
LabelMixed == <<"S", "Q", "L", "Q", "u", "e", "r", "y", ":">>
LabelUpper == <<"S", "Q", "L", "Q", "U", "E", "R", "Y", ":">>

\* the pieces texts are put together from
Chunks == { Fence, <<"s", "q", "l">>, LabelMixed, LabelLower, <<" ">>, <<"x">> }

RECURSIVE TextsUpTo(_)
\* every concatenation of at most n chunks
TextsUpTo(n) ==
    IF n = 0 THEN { <<>> }
    ELSE LET shorter == TextsUpTo(n - 1) IN
         shorter \cup { t \o c : t \in shorter, c \in Chunks }

Texts == TextsUpTo(MaxChunks)

\* markup around a payload: an opening fence (none, sql, bare), a closing
\* fence, a label, and the whitespace around the whole, inside the fences and
\* after the label
Wraps ==
    { w \in [ open : {"none", "sql", "bare"}, close : BOOLEAN,
              label : { <<>>, LabelMixed, LabelLower, LabelUpper },
              outer : { <<>>, <<" ">> }, inner : { <<>>, <<"\n">> },
              gap : { <<>>, <<" ">> } ] :
      /\ (w.close => w.open # "none")
      /\ (w.open = "none" => w.inner = <<>>)
      /\ (w.label = <<>> => w.gap = <<>>) }

\* the response text a wrap makes of a payload
Build(w, q) ==
    w.outer
    \o (IF w.open = "sql" THEN FenceSql ELSE IF w.open = "bare" THEN Fence ELSE <<>>)
    \o w.inner \o w.label \o w.gap \o q \o w.inner
    \o (IF w.close THEN Fence ELSE <<>>)
    \o w.outer

\* the sanitizer harness is idle while the application runs
CleanIdle ==
    /\ response = <<>> /\ wrap = <<>> /\ payload = <<>>
    /\ sql = <<>> /\ sql_again = <<>> /\ passes = 0

\* the application is idle while the sanitizer is exercised
AppIdle ==
    /\ session = InitSession
    /\ messages = <<>>
    /\ attempts = 0
    /\ lastSuccess = 0
    /\ handles = 0
    /\ db_writes = 0
    /\ last = Trace("init", FALSE, NoErr)

InitClean ==
    /\ AppIdle
    /\ payload \in Texts
    /\ wrap \in Wraps
    /\ response = Build(wrap, payload)
    /\ sql = <<>>
    /\ sql_again = <<>>
    /\ passes = 0

\* sql = self._clean_sql_response(response)
Sanitize ==
    /\ passes = 0
    /\ sql' = CleanSqlResponse(response)
    /\ passes' = 1
    /\ UNCHANGED <<response, wrap, payload, sql_again, appVars>>

\* the sanitizer applied to its own output
SanitizeAgain ==
    /\ passes = 1
    /\ sql_again' = CleanSqlResponse(sql)
    /\ passes' = 2
    /\ UNCHANGED <<response, wrap, payload, sql, appVars>>

NextClean == Sanitize \/ SanitizeAgain

SpecClean == InitClean /\ [][NextClean]_vars

Init ==
    /\ AppIdle
    /\ CleanIdle

Next == Connect \/ ShowTables \/ GetTableInfo \/ ClearChat \/ Chat

Spec == Init /\ [][Next]_vars

\* ------------------------------------------------------------------------
\* Helpers of the properties
\* ------------------------------------------------------------------------

\* the three stages of ask, in the order the code runs them
StageOrder == <<"sql_chain.invoke", "db.run", "answer_chain.invoke">>

IsStageCall(c) == c[1] \in {"sql_chain.invoke", "db.run", "answer_chain.invoke"}

\* the names of the stage calls of the last handler run, in order
StagesRun ==
    LET st == SelectSeq(last.calls, IsStageCall) IN [i \in 1..Len(st) |-> st[i][1]]

\* the arguments of the calls named name in the last handler run
ArgsOf(name) == {last.calls[i][2] : i \in {j \in 1..Len(last.calls) : last.calls[j][1] = name}}

IsPrefix(s, t) == Len(s) <= Len(t) /\ SubSeq(t, 1, Len(s)) = s

\* text q has the fence marker somewhere in it
HasFence(q) == \E i \in 1..(Len(q) - 2) : SubSeq(q, i, i + 2) = Fence

\* a query text that is trimmed and carries no markup of its own
IsBareQuery(q) ==
    /\ Strip(q) = q
    /\ ~HasFence(q)
    /\ ~StartsWith(Lower(q), LabelLower)

\* ------------------------------------------------------------------------
\* C1
\* ------------------------------------------------------------------------

\* C1: in every ask invocation the stages run in the order generation,
\* execution, synthesis, each at most once; the first stage to raise ends the
\* call with its own error and no record, and no later stage (nor a second
\* generation) is called: in particular, when db.run raises, ask raises the
\* executor's error and answer_chain.invoke is not called.
C1_FirstFailureEndsAsk ==
    last.op = "ask" =>
        /\ IsPrefix(StagesRun, StageOrder)
        /\ (last.err = NoErr => StagesRun = StageOrder)
        /\ (last.err = "GenerationError" => StagesRun = SubSeq(StageOrder, 1, 1))
        /\ (last.err = "ExecutionError" => StagesRun = SubSeq(StageOrder, 1, 2))
        /\ (last.err = "SynthesisError" => StagesRun = StageOrder)
        /\ (last.err \notin {NoErr, "GenerationError", "ExecutionError", "SynthesisError"}
               => StagesRun = <<>>)
        /\ (Len(StagesRun) >= 1 /\ last.raw = RawFail => last.err = "GenerationError")
        /\ (Len(StagesRun) >= 2 /\ last.run = Fail
               => last.err = "ExecutionError" /\ ArgsOf("answer_chain.invoke") = {})
        /\ (Len(StagesRun) >= 3 /\ last.answer = Fail => last.err = "SynthesisError")
        /\ (last.err # NoErr => last.record = <<>>)

\* an ask whose query execution raised
C1_Witness ==
    /\ last.op = "ask"
    /\ StagesRun = SubSeq(StageOrder, 1, 2)
    /\ last.run = Fail
    /\ last.err = "ExecutionError"

\* ------------------------------------------------------------------------
\* C2
\* ------------------------------------------------------------------------

\* C2: in every ask invocation, each query handed to db.run is the sanitized
\* form of the model reply of that same invocation, and the same string is
\* the one handed to the answer chain and returned in the record's sql_query.
C2_OnlySanitizedQueryRuns ==
    last.op = "ask" =>
        /\ \A q \in ArgsOf("db.run") :
               last.raw # RawFail /\ q = CleanSqlResponse(last.raw)
        /\ \A a \in ArgsOf("answer_chain.invoke") :
               a.sql_query = CleanSqlResponse(last.raw)
        /\ (last.record # <<>> =>
               last.record[1].sql_query = CleanSqlResponse(last.raw))

\* an ask that executed a query whose raw reply carried markup
C2_Witness ==
    /\ last.op = "ask"
    /\ last.raw # RawFail
    /\ last.raw # CleanSqlResponse(last.raw)
    /\ ArgsOf("db.run") = {CleanSqlResponse(last.raw)}
    /\ last.record # <<>>

\* ------------------------------------------------------------------------
\* C3
\* ------------------------------------------------------------------------

\* C3: every ask invocation either returns a record whose four fields are the
\* input question, the query that was run, the executor's output and the
\* synthesizer's output (all three stages having succeeded), or raises and
\* returns no record; the chat then stores either all of the record's fields
\* or an error message with none of them.
C3_RecordWholeOrError ==
    last.op = "ask" =>
        \/ /\ last.err = NoErr
           /\ last.raw # RawFail /\ last.run # Fail /\ last.answer # Fail
           /\ Len(last.record) = 1
           /\ DOMAIN last.record[1] = {"question", "sql_query", "sql_result", "answer"}
           /\ last.record[1].question = last.question
           /\ ArgsOf("db.run") = {last.record[1].sql_query}
           /\ last.record[1].sql_result = last.run
           /\ last.record[1].answer = last.answer
           /\ messages[Len(messages)] =
                  [ role |-> "assistant", content |-> last.answer,
                    sql_query |-> last.record[1].sql_query, sql_result |-> last.run ]
        \/ /\ last.err # NoErr
           /\ last.record = <<>>
           /\ messages[Len(messages)] =
                  [ role |-> "assistant", content |-> <<"Error executing query", last.err>> ]

\* an ask that returned a full record, and one that raised at the last stage
C3_Witness ==
    /\ last.op = "ask"
    /\ last.err = NoErr
    /\ last.question = "q2"
    /\ last.record # <<>>
    /\ Len(messages) = 2

\* ------------------------------------------------------------------------
\* C4
\* ------------------------------------------------------------------------

\* C4 as the specification states it: ask on a pipeline whose data source
\* has not been connected raises NotConnectedError and makes no external call.
C4_NotConnectedErrorRaised ==
    (last.op = "ask" /\ last.pre_db = None) =>
        (last.err = "NotConnectedError" /\ last.calls = <<>>)

\* C4, amended: while the session is not connected the chat page never calls
\* ask, so nothing is asked and no external call is made; once a pipeline
\* object exists, ask on it before its data-source handle is built never raises
\* NotConnectedError: ask itself calls SQLDatabase.from_uri before anything
\* else, raises what from_uri raises, and goes on to the stages when from_uri
\* returns a handle.
C4_AskConnectsLazily ==
    /\ (~session.connected =>
           /\ session.genai_chain = None
           /\ messages = <<>>
           /\ last.op # "ask"
           /\ last.calls = <<>>)
    /\ ((last.op = "ask" /\ last.pre_db = None) =>
           /\ last.connected
           /\ last.err # "NotConnectedError"
           /\ last.calls # <<>>
           /\ last.calls[1] = <<"SQLDatabase.from_uri", session.genai_chain[1].connection_uri>>
           /\ (last.err = "ConnectError" <=> SessionDb(session) = None)
           /\ (last.err = "ConnectError" => Len(last.calls) = 1)
           /\ (last.err # "ConnectError" =>
                  /\ Len(last.calls) >= 2
                  /\ last.calls[2][1] = "sql_chain.invoke"))

\* the first ask after Connect: the handle was not built, ask built it and answered
C4_Witness ==
    /\ last.op = "ask"
    /\ last.pre_db = None
    /\ last.err = NoErr
    /\ last.calls[1][1] = "SQLDatabase.from_uri"
    /\ SessionDb(session) # None

\* ------------------------------------------------------------------------
\* C9
\* ------------------------------------------------------------------------

\* the pipeline calls that read the data-source handle
HandleReaders == {"ask", "show_tables", "get_table_info"}

\* C9: for one pipeline object the data-source handle is assigned at most
\* once, by the first access that gets a handle from from_uri; every later
\* access reads that same handle and makes no further from_uri call; the
\* handle of the session changes only when a successful Connect replaces the
\* pipeline object by a new one whose handle is not built yet.
C9_HandleWrittenOnce ==
    /\ [](/\ db_writes <= 1
          /\ (db_writes = 1 <=> SessionDb(session) # None)
          /\ (last.op \in HandleReaders /\ last.pre_db # None =>
                 /\ SessionDb(session) = last.pre_db
                 /\ ArgsOf("SQLDatabase.from_uri") = {})
          /\ (last.op \in {"show_tables", "get_table_info"} /\ last.err = NoErr =>
                 SessionDb(session) # None)
          /\ (last.op = "ask" /\ StagesRun # <<>> => SessionDb(session) # None))
    /\ [][ (SessionDb(session) # None /\ SessionDb(session') # SessionDb(session)) =>
               /\ last'.op = "connect"
               /\ last'.err = NoErr
               /\ session'.genai_chain[1].id # session.genai_chain[1].id
               /\ SessionDb(session') = None ]_vars

\* a second access of the same pipeline object found the handle built
C9_Witness ==
    /\ last.op \in HandleReaders
    /\ last.pre_db # None
    /\ last.err = NoErr
    /\ db_writes = 1
    /\ lastSuccess = 2

\* ------------------------------------------------------------------------
\* C10
\* ------------------------------------------------------------------------

\* C10: a Connect attempt that fails leaves the session as it was; so in
\* every state connected implies that bq_client and genai_chain are set and
\* were both made by the most recent successful Connect, whose project and
\* dataset the session shows.
C10_FailedConnectChangesNothing ==
    /\ [](IF session.connected
          THEN /\ session.bq_client # None
               /\ session.genai_chain # None
               /\ session.bq_client[1].id = lastSuccess
               /\ session.genai_chain[1].id = lastSuccess
               /\ session.project_id = session.bq_client[1].project_id
               /\ session.genai_chain[1].connection_uri =
                      GetConnectionUri(session.bq_client[1], session.dataset_id)
          ELSE session = InitSession)
    /\ [][ (last'.op = "connect" /\ last'.err # NoErr) => session' = session ]_vars

\* a Connect that failed at test_connection after an earlier one had succeeded
C10_Witness ==
    /\ session.connected
    /\ last.op = "connect"
    /\ last.err = "ConnectionFailed"
    /\ lastSuccess = 1
    /\ attempts = 2

\* ------------------------------------------------------------------------
\* C5
\* ------------------------------------------------------------------------

\* C5: sanitization is idempotent: sanitizing the sanitized text again
\* returns it unchanged, for every response text.
C5_SanitizeIdempotent ==
    passes = 2 => sql_again = sql

\* ------------------------------------------------------------------------
\* C6
\* ------------------------------------------------------------------------

\* C6: for a trimmed query q with no fence marker and no label prefix of its
\* own, the response made of the opening sql fence, q and the closing fence,
\* with any whitespace around and inside, is sanitized to exactly q; the same
\* holds when the closing fence is missing.
C6_SqlFenceStripped ==
    (passes >= 1 /\ wrap.open = "sql" /\ wrap.label = <<>> /\ IsBareQuery(payload)) =>
        sql = payload

\* a fenced query with line breaks inside the fences, sanitized
C6_Witness ==
    /\ passes >= 1
    /\ wrap.open = "sql" /\ wrap.close /\ wrap.label = <<>>
    /\ wrap.inner = <<"\n">> /\ wrap.outer = <<" ">>
    /\ payload = <<"x", "s", "q", "l">>
    /\ sql = payload

\* ------------------------------------------------------------------------
\* C7
\* ------------------------------------------------------------------------

\* the label stands at the start of the text or inside a fenced block; a bare
\* fence with lower-case sql right behind it is the sql fence, so a lower-case
\* label glued to a bare fence is not a label behind a fence
LabelInPlace(w) ==
    /\ w.label # <<>>
    /\ ~(w.open = "bare" /\ w.inner = <<>> /\ StartsWith(w.label, <<"s", "q", "l">>))

\* C7: for a trimmed query q with no fence marker and no label prefix of its
\* own, a response made of the label SQLQuery: in any letter case, optional
\* whitespace and q is sanitized to exactly q, also when label and query
\* stand inside a fenced block.
C7_LabelStripped ==
    (passes >= 1 /\ LabelInPlace(wrap) /\ IsBareQuery(payload)) => sql = payload

\* a capital-letter label inside a fenced block, sanitized
C7_Witness ==
    /\ passes >= 1
    /\ wrap.label = LabelUpper /\ wrap.gap = <<" ">>
    /\ wrap.open = "bare" /\ wrap.close /\ wrap.inner = <<"\n">>
    /\ payload = <<"x", "s", "q", "l">>
    /\ sql = payload

\* ------------------------------------------------------------------------
\* C8
\* ------------------------------------------------------------------------

\* the trimmed text carries none of the markup the sanitizer looks for
NoMarkup(t) ==
    /\ ~StartsWith(t, Fence)
    /\ ~EndsWith(t, Fence)
    /\ ~StartsWith(Lower(t), LabelLower)

\* C8: a response that, once trimmed, neither begins with a fence marker nor
\* ends with one nor begins with the label is sanitized to exactly the
\* trimmed response.
C8_PlainTextOnlyTrimmed ==
    (passes >= 1 /\ NoMarkup(Strip(response))) => sql = Strip(response)

\* a plain response with whitespace around it and a label in the middle
C8_Witness ==
    /\ passes >= 1
    /\ NoMarkup(Strip(response))
    /\ response = <<" ", "x">> \o LabelMixed \o <<" ">>
    /\ sql = <<"x">> \o LabelMixed

====
